---- MODULE Spec2Model ----
(***************************************************************************)
(* State-machine model of BboniSensor (src/sensor/bboni_ble.py): the BLE   *)
(* notification handler, the calibration routine, the shake-intensity      *)
(* estimator and the tilt estimator.                                       *)
(*                                                                         *)
(* Number representation.  The program computes in Python floats; the      *)
(* model computes the same quantities exactly, in integers:                *)
(*  - accelerations and deltas are kept in LSB (delta_g = delta / 2048);   *)
(*  - the EMA value is the rational num[i] / 20^k (alpha = 0.15 = 3/20);    *)
(*  - a shake intensity is the rational num / (3072 * len);                 *)
(*  - angles are whole degrees.                                            *)
(* The input sets are chosen so that every distance between two            *)
(* accelerometer vectors is a whole number of LSB and every atan2 is a     *)
(* whole number of degrees, so nothing is rounded.                         *)
(***************************************************************************)
EXTENDS Integers, Sequences, FiniteSets, TLC

VARIABLES
    is_connected,        \* self.is_connected
    raw_imu_data,        \* self._raw_imu_data
    imu_data,            \* self.imu_data (calibrated)
    calibration_offset,  \* self.calibration_offset
    filtered_accel,      \* self._filtered_accel, [num, k]: value num[i] / 20^k
    ema_initialized,     \* self._ema_initialized
    prev_accel,          \* self._prev_accel (None or a vector)
    delta_buffer,        \* self._delta_buffer, deltas in LSB
    quiet_count,         \* self._quiet_count
    last_intensity,      \* self._last_intensity
    neutral_roll,        \* self.neutral_roll
    neutral_pitch,       \* self.neutral_pitch
    last_valid_tilt,     \* self._last_valid_tilt
    cal,                 \* the frame of a running calibrate() call
    ret,                 \* what the last game-thread call returned
    exc,                 \* the exception the last call or callback raised
    rx,                  \* the notification last handed to the handler
    count,               \* how many notifications, polls, calibrations so far
    twin,                \* a second estimator fed a second signal (SpecMono)
    seen_tilt,           \* history: relative tilt of the last valid reading
                         \* get_tilt_angle was called on since calibration
    lock,                \* who holds self._lock: "none", "handler", "game"
    handler,             \* a callback invocation that has not yet returned
    running,             \* self._running
    client,              \* self.client and the transport's client.is_connected
    thread,              \* where the background thread is in _run_event_loop
    quiet_run,           \* history: newly processed samples in a row, up to
                         \* now, whose delta was below the noise threshold
    ema_reset,           \* history: calibrate has reset the EMA filter and
                         \* no accelerometer sample was accepted since
    target_image,        \* ShapeSimilarityScorer._target_image
    target_contour       \* CircleSimilarityScorer._target_contour(_filled)

ingestVars == <<raw_imu_data, imu_data, filtered_accel, ema_initialized>>
shakeVars  == <<prev_accel, delta_buffer, quiet_count, last_intensity>>
tiltVars   == <<neutral_roll, neutral_pitch, last_valid_tilt>>
vars == <<is_connected, raw_imu_data, imu_data, calibration_offset,
          filtered_accel, ema_initialized, prev_accel, delta_buffer,
          quiet_count, last_intensity, neutral_roll, neutral_pitch,
          last_valid_tilt, cal, ret, exc, rx, count, twin, seen_tilt,
          lock, handler, running, client, thread, ema_reset, target_image,
          target_contour, quiet_run>>
lockVars == <<lock, handler>>
linkVars == <<running, client, thread>>
scorerVars == <<target_image, target_contour>>
auxVars == <<twin, lockVars, linkVars, scorerVars>>
sideVars == <<seen_tilt, ema_reset, quiet_run, auxVars>>

(***************************************************************************)
(* Bounds of the model.                                                    *)
(***************************************************************************)
MaxBlends == 2       \* EMA blends since the filter was last seeded
MaxTs == 2           \* hardware timestamps 1..MaxTs
MaxIngest == 3       \* notifications in one run of SpecIngest
MaxSamples == 2      \* the samples argument of calibrate()
MaxCalNotify == 2    \* notifications in one run of SpecCal
MaxCalibrations == 2 \* calibrate() calls in one run of SpecCal
MaxNotify == 2       \* notifications in one run of Spec
MaxPolls == 3        \* get_shake_intensity/get_tilt_angle calls in one run of Spec
MaxCalls == 2        \* calibrate() calls in one run of Spec
MaxShakePolls == 4   \* get_shake_intensity calls in one run of SpecShake
MaxShakeNotify == 4  \* notifications in one run of SpecShake
MaxMonoPolls == 8     \* samples of each signal in one run of SpecMono
MaxTiltNotify == 3
MaxTiltPolls == 3
MaxLockNotify == 3
MaxLockPolls == 2
MaxLockSamples == 2
MaxReadNotify == 2
MaxReads == 3
MaxLinkNotify == 3
MaxConnects == 3     \* connect() calls in one run of SpecLink
MaxPoints == 10
MaxShapePoints == 3
MaxGateNotify == 5   \* notifications in one run of SpecGates
MaxQuietNotify == 8  \* notifications in one run of SpecQuiet
MaxRingNotify == 22  \* notifications in one run of SpecRing
MaxRingDetours == 4  \* the leading samples of SpecRing that may rest midway

\* None, where the program holds None or a vector.
None == <<>>

(***************************************************************************)
(* Python helpers.                                                         *)
(***************************************************************************)
Min(a, b) == IF a < b THEN a ELSE b

Abs(a) == IF a < 0 THEN -a ELSE a

\* int(x) of the rational n / d, d > 0: truncation toward zero.
Trunc(n, d) == IF n >= 0 THEN n \div d ELSE -((-n) \div d)

RECURSIVE Pow20(_)
Pow20(k) == IF k = 0 THEN 1 ELSE 20 * Pow20(k - 1)

RECURSIVE SumSeq(_)
SumSeq(s) == IF s = <<>> THEN 0 ELSE s[1] + SumSeq(Tail(s))

\* data[lo:hi]
PySlice(data, lo, hi) == SubSeq(data, lo + 1, Min(hi, Len(data)))

(***************************************************************************)
(* IMUData (dataclass, all fields default 0).                              *)
(***************************************************************************)
IMUData == [ax |-> 0, ay |-> 0, az |-> 0, gx |-> 0, gy |-> 0, gz |-> 0,
            timestamp |-> 0]

(***************************************************************************)
(* struct.unpack: little-endian fields, struct.error on a wrong length.    *)
(***************************************************************************)
S16(lo, hi) == LET u == lo + 256 * hi IN IF u >= 32768 THEN u - 65536 ELSE u

\* struct.unpack('<3h', b)
Unpack3h(b) ==
    IF Len(b) # 6 THEN [ok |-> FALSE]
    ELSE [ok |-> TRUE,
          val |-> <<S16(b[1], b[2]), S16(b[3], b[4]), S16(b[5], b[6])>>]

\* struct.unpack('<I', b)[0]
UnpackI(b) ==
    IF Len(b) # 4 THEN [ok |-> FALSE]
    ELSE [ok |-> TRUE,
          val |-> b[1] + 256 * b[2] + 65536 * b[3] + 16777216 * b[4]]

\* The packets the device sends (what the handler's parsing inverts).
LE16(v) == LET u == IF v < 0 THEN v + 65536 ELSE v IN <<u % 256, u \div 256>>

LE32(t) == <<t % 256, (t \div 256) % 256, (t \div 65536) % 256, t \div 16777216>>

\* Accelerometer packet, 18 bytes: 0xff header, 3 x int16, uint32, padding.
AccelPacket(v, t) ==
    <<255>> \o LE16(v[1]) \o LE16(v[2]) \o LE16(v[3]) \o LE32(t)
            \o <<0, 0, 0, 0, 0, 0, 0>>

\* Gyroscope packet, 16 bytes: 3 x int16, uint32, padding.
GyroPacket(v, t) ==
    LE16(v[1]) \o LE16(v[2]) \o LE16(v[3]) \o LE32(t) \o <<0, 0, 0, 0, 0, 0>>

\* A packet of the given characteristic cut to `len` bytes.
Packet(sender, v, t, len) ==
    IF sender = "1601" THEN PySlice(AccelPacket(v, t), 0, len)
    ELSE PySlice(GyroPacket(v, t), 0, len)

IMU_CHAR_UUIDS == {"1601", "1603"}

MAX_VALID_LSB == 32768

(***************************************************************************)
(* _notification_handler: parsing.                                         *)
(***************************************************************************)
Fields(vb, tb) ==
    LET v == Unpack3h(vb)
        t == UnpackI(tb)
    IN IF ~v.ok \/ ~t.ok THEN [kind |-> "raise"]
       ELSE [kind |-> "ok", values |-> v.val, timestamp |-> t.val]

\* A parser with the accelerometer length test off by the timestamp field.
ParsePacketShortTest(is_accel, data) ==
    IF is_accel /\ Len(data) >= 7 THEN
        Fields(PySlice(data, 1, 7), PySlice(data, 7, 11))
    ELSE IF ~is_accel /\ Len(data) >= 10 THEN
        Fields(PySlice(data, 0, 6), PySlice(data, 6, 10))
    ELSE [kind |-> "skip"]

\* Lines 119-128: "skip" is the early return on a short payload.
ParsePacket(is_accel, data) ==
    IF is_accel /\ Len(data) >= 11 THEN
        Fields(PySlice(data, 1, 7), PySlice(data, 7, 11))
    ELSE IF ~is_accel /\ Len(data) >= 10 THEN
        Fields(PySlice(data, 0, 6), PySlice(data, 6, 10))
    ELSE [kind |-> "skip"]

\* Line 132: any(abs(v) > MAX_VALID_LSB for v in values)
OutOfRange(values) == \E i \in 1..3 : Abs(values[i]) > MAX_VALID_LSB

(***************************************************************************)
(* EMA filter, lines 143-151.                                              *)
(***************************************************************************)
RECURSIVE Reduce(_)
\* The same rational triple over the smallest power of 20.
Reduce(f) ==
    IF f.k > 0 /\ \A i \in 1..3 : f.num[i] % 20 = 0
    THEN Reduce([num |-> [i \in 1..3 |-> f.num[i] \div 20], k |-> f.k - 1])
    ELSE f

Seeded(values) == [num |-> values, k |-> 0]

\* The blend with the two weights exchanged: 0.85 of the new sample.
BlendSwapped(f, values) ==
    LET sum == [i \in 1..3 |-> 17 * values[i] * Pow20(f.k) + 3 * f.num[i]]
    IN Reduce([num |-> sum, k |-> f.k + 1])

\* alpha * values[i] + (1 - alpha) * filtered[i], alpha = 0.15 = 3/20.  The
\* result is exact up to MaxBlends base-20 digits; past that it is rounded
\* to the nearest 20^-MaxBlends LSB, as the program rounds to a double.
Blend(f, values) ==
    LET sum == [i \in 1..3 |-> 3 * values[i] * Pow20(f.k) + 17 * f.num[i]]
    IN IF f.k < MaxBlends THEN Reduce([num |-> sum, k |-> f.k + 1])
       ELSE Reduce([num |-> [i \in 1..3 |-> (sum[i] + 10) \div 20], k |-> f.k])

EmaStep(initialized, f, values) ==
    IF ~initialized THEN Seeded(values) ELSE Blend(f, values)

\* int(self._filtered_accel[i])
IntFiltered(f, i) == Trunc(f.num[i], Pow20(f.k))

\* A gyroscope branch that stamps the raw record as the accelerometer
\* branch does.
GyroRawStamped(raw, p) ==
    [raw EXCEPT !.gx = p.values[1], !.gy = p.values[2], !.gz = p.values[3],
                !.timestamp = p.timestamp]

\* Lines 159-161: the raw gyroscope axes; the raw timestamp is not written.
GyroRaw(raw, p) ==
    [raw EXCEPT !.gx = p.values[1], !.gy = p.values[2], !.gz = p.values[3]]

(***************************************************************************)
(* _notification_handler(sender, data), lines 111-167.  The handler holds  *)
(* the lock from its first line to its last.                               *)
(***************************************************************************)
Handle(sender, data) ==
    LET is_accel == sender = "1601"
        p == ParsePacket(is_accel, data)
        f == EmaStep(ema_initialized, filtered_accel, p.values)
    IN /\ rx' = [sender |-> sender, data |-> data]
       /\ count' = [count EXCEPT !.notify = @ + 1]
       /\ exc' = IF p.kind = "raise" THEN "struct.error" ELSE "none"
       /\ UNCHANGED <<is_connected, calibration_offset, shakeVars, tiltVars,
                      cal, ret, twin, seen_tilt, quiet_run, linkVars,
                      scorerVars>>
       /\ IF p.kind # "ok" \/ OutOfRange(p.values) THEN
              UNCHANGED <<ingestVars, ema_reset>>
          ELSE IF is_accel THEN
              /\ ema_reset' = FALSE
              /\ raw_imu_data' = [raw_imu_data EXCEPT
                                    !.ax = p.values[1], !.ay = p.values[2],
                                    !.az = p.values[3],
                                    !.timestamp = p.timestamp]
              /\ filtered_accel' = f
              /\ ema_initialized' = TRUE
              /\ imu_data' = [imu_data EXCEPT
                                !.ax = IntFiltered(f, 1) - calibration_offset.ax,
                                !.ay = IntFiltered(f, 2) - calibration_offset.ay,
                                !.az = IntFiltered(f, 3) - calibration_offset.az,
                                !.timestamp = p.timestamp]
          ELSE
              /\ raw_imu_data' = GyroRaw(raw_imu_data, p)
              /\ imu_data' = [imu_data EXCEPT
                                !.gx = p.values[1] - calibration_offset.gx,
                                !.gy = p.values[2] - calibration_offset.gy,
                                !.gz = p.values[3] - calibration_offset.gz,
                                !.timestamp = p.timestamp]
              /\ UNCHANGED <<filtered_accel, ema_initialized, ema_reset>>

\* The handler run as one step: no other thread holds the lock.
Notify(sender, data) == Handle(sender, data) /\ UNCHANGED lockVars

\* The packets for which the model's filter value is exact.
EmaRoom(sender, data) ==
    LET p == ParsePacket(sender = "1601", data)
    IN (sender = "1601" /\ p.kind = "ok" /\ ema_initialized)
          => filtered_accel.k < MaxBlends

(***************************************************************************)
(* __init__, lines 64-109.                                                 *)
(***************************************************************************)
CalIdle == [pc |-> "idle", samples |-> 0, i |-> 0,
            ax_samples |-> <<>>, ay_samples |-> <<>>, az_samples |-> <<>>,
            gx_samples |-> <<>>, gy_samples |-> <<>>, gz_samples |-> <<>>,
            reads |-> <<>>]

Zero == [num |-> 0, len |-> 1]

HandlerIdle == [pc |-> "idle", sender |-> "none", data |-> <<>>]

\* The arguments CircleSimilarityScorer is built with (cv_scoring.py, lines
\* 53-71) and the canvas ShapeSimilarityScorer is built with (lines 317-325).
circle_canvas_size == <<16, 12>>

target_center == <<6, 6>>

target_radius == 4

shape_canvas_size == <<40, 40>>

H_THICKNESS == 12

\* self._target_image = None, line 325.
NoTarget == [created |-> FALSE, thickness |-> 0]

\* self._target_image after create_target_h_image(), line 357.
HTarget == [created |-> TRUE, thickness |-> H_THICKNESS]

Init ==
    /\ is_connected = FALSE
    /\ raw_imu_data = IMUData
    /\ imu_data = IMUData
    /\ calibration_offset = IMUData
    /\ filtered_accel = [num |-> <<0, 0, 0>>, k |-> 0]
    /\ ema_initialized = FALSE
    /\ prev_accel = None
    /\ delta_buffer = <<>>
    /\ quiet_count = 0
    /\ last_intensity = Zero
    /\ neutral_roll = 0
    /\ neutral_pitch = 0
    /\ last_valid_tilt = <<0, 0>>
    /\ cal = CalIdle
    /\ ret = [op |-> "none"]
    /\ exc = "none"
    /\ rx = [sender |-> "none", data |-> <<>>]
    /\ count = [notify |-> 0, poll |-> 0, calibrate |-> 0, connect |-> 0]
    /\ twin = [est |-> [prev_accel |-> None, delta_buffer |-> <<>>,
                        quiet_count |-> 0, last_intensity |-> Zero],
               last |-> None, val |-> Zero, ok |-> TRUE]
    /\ seen_tilt = None
    /\ lock = "none"
    /\ handler = HandlerIdle
    /\ running = FALSE
    /\ client = [exists |-> FALSE, is_connected |-> FALSE]
    /\ thread = "none"
    /\ ema_reset = FALSE
    /\ quiet_run = 0
    /\ target_image = NoTarget
    /\ target_contour = [center |-> target_center, radius |-> target_radius]

(***************************************************************************)
(* Magnitudes and distances.  sqrt is exact on the model's inputs, and a   *)
(* comparison of sqrt(n) with a whole number is a comparison of n with its *)
(* square.                                                                 *)
(***************************************************************************)
SumSq(x, y, z) == x * x + y * y + z * z

RECURSIVE ISqrtIn(_, _, _)
ISqrtIn(n, lo, hi) ==
    IF lo >= hi THEN lo
    ELSE LET mid == (lo + hi + 1) \div 2
         IN IF mid * mid <= n THEN ISqrtIn(n, mid, hi) ELSE ISqrtIn(n, lo, mid - 1)

ISqrt(n) == ISqrtIn(n, 0, 46340)

\* sum((c - p) ** 2 for c, p in zip(current, prev)) ** 0.5, in LSB
Dist(c, p) ==
    ISqrt(SumSq(c[1] - p[1], c[2] - p[2], c[3] - p[3]))

(***************************************************************************)
(* get_shake_intensity, lines 333-404, as a function of the estimator      *)
(* state and of the raw reading it takes under the lock.                   *)
(***************************************************************************)
DELTA_BUFFER_SIZE == 20

\* Line 379: the quiet samples in a row that clear the window.
QUIET_RUN == 5

One == [num |-> 3072, len |-> 1]

\* The intensity a / b as rationals: a.num / (3072 * a.len).
IntensityLeq(a, b) == a.num * b.len <= b.num * a.len

\* (avg_delta - 0.3) / 0.3 with avg_delta = sum / (2048 * len)
Rescaled(buf) ==
    [num |-> 5 * SumSeq(buf) - 3072 * Len(buf), len |-> Len(buf)]

\* The rescaled value without the clamp to 1.0.
IntensityOfUnclamped(buf) ==
    IF 10 * SumSeq(buf) < 6144 * Len(buf) THEN Zero
    ELSE Rescaled(buf)

\* The rescaling with the operands of the subtraction exchanged.
IntensityOfSwapped(buf) ==
    IF 10 * SumSeq(buf) < 6144 * Len(buf) THEN Zero
    ELSE [num |-> 3072 * Len(buf) - 5 * SumSeq(buf), len |-> Len(buf)]

\* Lines 394-404: dead zone below 0.3 g, then min(1.0, ...).
IntensityOf(buf) ==
    IF 10 * SumSeq(buf) < 6144 * Len(buf) THEN Zero
    ELSE IF Rescaled(buf).num >= 3072 * Len(buf) THEN One
    ELSE Rescaled(buf)

\* A window that drops the delta just appended when it is full.
PushEvictNewest(buf, d) ==
    LET b == Append(buf, d)
    IN IF Len(b) > DELTA_BUFFER_SIZE THEN SubSeq(b, 1, Len(b) - 1) ELSE b

\* Lines 390-392: append, then evict the oldest entry.
Push(buf, d) ==
    LET b == Append(buf, d)
    IN IF Len(b) > DELTA_BUFFER_SIZE THEN Tail(b) ELSE b

Estimator == [prev_accel |-> prev_accel, delta_buffer |-> delta_buffer,
              quiet_count |-> quiet_count, last_intensity |-> last_intensity]

\* Lines 386-404, with the (noise-gated) delta and the window to push into.
Average(est, current, delta, buf, quiet) ==
    LET b == Push(buf, delta)
    IN [est |-> [prev_accel |-> current, delta_buffer |-> b,
                 quiet_count |-> quiet, last_intensity |-> IntensityOf(b)],
        val |-> IntensityOf(b)]

\* The estimator with the duplicate gate (lines 359-360) left out.
ShakeStepNoDuplicateGate(est, data) ==
    LET current == <<data.ax, data.ay, data.az>>
        delta == Dist(current, est.prev_accel)
    IN IF SumSq(data.ax, data.ay, data.az) < 1000000 THEN
           [est |-> est, val |-> Zero]
       ELSE IF est.prev_accel = None THEN
           Average(est, current, 0, est.delta_buffer, est.quiet_count)
       ELSE IF delta > 3072 THEN
           [est |-> [est EXCEPT !.prev_accel = current],
            val |-> est.last_intensity]
       ELSE IF 20 * delta < 6144 THEN
           IF est.quiet_count + 1 >= 5
           THEN Average(est, current, 0, <<>>, 0)
           ELSE Average(est, current, 0, est.delta_buffer, est.quiet_count + 1)
       ELSE Average(est, current, delta, est.delta_buffer, 0)

\* A validity gate that lets every reading through.
TooSmallNever(data) == FALSE

\* Line 351: total < 1000
TooSmall(data) == SumSq(data.ax, data.ay, data.az) < 1000000

\* An outlier gate that keeps the previous vector.
GlitchKeepsPrev(est, current) == [est |-> est, val |-> est.last_intensity]

\* Lines 368-371: the glitch becomes the previous vector, and the cached
\* intensity is returned.
Glitch(est, current) ==
    [est |-> [est EXCEPT !.prev_accel = current], val |-> est.last_intensity]

\* The gate of get_shake_intensity that decides a reading.
Gate(est, data) ==
    LET current == <<data.ax, data.ay, data.az>>
        delta == Dist(current, est.prev_accel)
    IN IF TooSmall(data) THEN "invalid"
       ELSE IF est.prev_accel = None THEN "first"
       ELSE IF current = est.prev_accel THEN "duplicate"
       ELSE IF delta > 3072 THEN "outlier"
       ELSE IF 20 * delta < 6144 THEN "noise"
       ELSE "normal"

ShakeStep(est, data) ==
    LET current == <<data.ax, data.ay, data.az>>
        delta == Dist(current, est.prev_accel)
    IN IF TooSmall(data) THEN
           \* validity gate: total < 1000
           [est |-> est, val |-> Zero]
       ELSE IF est.prev_accel = None THEN
           Average(est, current, 0, est.delta_buffer, est.quiet_count)
       ELSE IF current = est.prev_accel THEN
           \* duplicate gate
           [est |-> est, val |-> est.last_intensity]
       ELSE IF delta > 3072 THEN
           \* outlier gate: delta_g > 1.5
           Glitch(est, current)
       ELSE IF 20 * delta < 6144 THEN
           \* noise gate: delta_g < 0.15
           IF est.quiet_count + 1 >= 5
           THEN Average(est, current, 0, <<>>, 0)
           ELSE Average(est, current, 0, est.delta_buffer, est.quiet_count + 1)
       ELSE Average(est, current, delta, est.delta_buffer, 0)

\* get_shake_intensity() on the game thread.
GetShakeIntensity ==
    LET r == ShakeStep(Estimator, raw_imu_data)
    IN /\ cal.pc = "idle"
       /\ prev_accel' = r.est.prev_accel
       /\ delta_buffer' = r.est.delta_buffer
       /\ quiet_count' = r.est.quiet_count
       /\ last_intensity' = r.est.last_intensity
       /\ ret' = [op |-> "get_shake_intensity", val |-> r.val,
                  data |-> <<raw_imu_data.ax, raw_imu_data.ay, raw_imu_data.az>>]
       /\ exc' = "none"
       /\ count' = [count EXCEPT !.poll = @ + 1]
       /\ quiet_run' =
             CASE Gate(Estimator, raw_imu_data) \in {"invalid", "first", "duplicate"}
                     -> quiet_run
               [] Gate(Estimator, raw_imu_data) \in {"outlier", "normal"} -> 0
               [] Gate(Estimator, raw_imu_data) = "noise"
                     -> (quiet_run + 1) % QUIET_RUN
       /\ UNCHANGED <<is_connected, ingestVars, calibration_offset, tiltVars,
                      cal, rx, seen_tilt, ema_reset, auxVars>>

(***************************************************************************)
(* Tilt, lines 406-464.  Angles are whole degrees.                         *)
(***************************************************************************)
RECURSIVE AngleDiffDown(_)
AngleDiffDown(diff) == IF diff > 180 THEN AngleDiffDown(diff - 360) ELSE diff

RECURSIVE AngleDiffUp(_)
AngleDiffUp(diff) == IF diff < -180 THEN AngleDiffUp(diff + 360) ELSE diff

\* The naive subtraction, without the two wrap loops.
AngleDiffNaive(a, b) == a - b

\* _angle_diff(a, b)
AngleDiff(a, b) == AngleDiffUp(AngleDiffDown(a - b))

\* math.atan2(y, x) * 180 / math.pi on the directions the inputs take; a
\* direction within 0.6 degrees of an axis (the az = 0.001 substitute) is
\* given as that axis.
Atan2Deg(y, x) ==
    CASE y = 0 /\ x > 0 -> 0
      [] y = 0 /\ x < 0 -> 180
      [] y # 0 /\ Abs(y) >= 100 * Abs(x) -> IF y > 0 THEN 90 ELSE -90
      [] y > 0 /\ x = y -> 45
      [] y > 0 /\ x = -y -> 135
      [] y < 0 /\ x = -y -> -45
      [] y < 0 /\ x = y -> -135

\* _calculate_raw_tilt_angle() on the reading it takes under the lock.
\* ax / 2048.0 and 0.001 are both scaled by 2048000.
RawTilt(data) ==
    LET az == IF data.az = 0 THEN 2048 ELSE 1000 * data.az
    IN IF SumSq(data.ax, data.ay, data.az) < 1000000 THEN <<0, 0>>
       ELSE <<Atan2Deg(1000 * data.ax, az), Atan2Deg(1000 * data.ay, az)>>

\* A reading of magnitude at least 1000 LSB.
ValidReading(data) == SumSq(data.ax, data.ay, data.az) >= 1000000

\* (atan2(ax_g, az_g), atan2(ay_g, az_g)) in degrees, for any reading.
TiltOfReading(data) ==
    LET az == IF data.az = 0 THEN 2048 ELSE 1000 * data.az
    IN <<Atan2Deg(1000 * data.ax, az), Atan2Deg(1000 * data.ay, az)>>

\* The tilt of a reading relative to the neutral angles.
RelativeTilt(data, nr, np) ==
    <<AngleDiff(TiltOfReading(data)[1], nr), AngleDiff(TiltOfReading(data)[2], np)>>

\* get_tilt_angle() on the game thread.
GetTiltAngle ==
    LET raw == RawTilt(raw_imu_data)
        rel == <<AngleDiff(raw[1], neutral_roll), AngleDiff(raw[2], neutral_pitch)>>
    IN /\ cal.pc = "idle"
       /\ IF raw[1] = 0 /\ raw[2] = 0 THEN
              /\ ret' = [op |-> "get_tilt_angle", val |-> last_valid_tilt]
              /\ UNCHANGED last_valid_tilt
          ELSE
              /\ ret' = [op |-> "get_tilt_angle", val |-> rel]
              /\ last_valid_tilt' = rel
       /\ seen_tilt' = IF ValidReading(raw_imu_data)
                       THEN RelativeTilt(raw_imu_data, neutral_roll, neutral_pitch)
                       ELSE seen_tilt
       /\ exc' = "none"
       /\ count' = [count EXCEPT !.poll = @ + 1]
       /\ UNCHANGED <<is_connected, ingestVars, calibration_offset, shakeVars,
                      neutral_roll, neutral_pitch, cal, rx, ema_reset,
                      quiet_run, auxVars>>

(***************************************************************************)
(* calibrate(samples, delay), lines 266-331.  The call runs on the game    *)
(* thread and takes the lock only inside get_raw_imu_data(), so the        *)
(* handler may run between any two of its statements: each statement that  *)
(* reads or writes state shared with the handler is one step.              *)
(***************************************************************************)
RECURSIVE Insert(_, _)
Insert(x, s) ==
    IF s = <<>> THEN <<x>>
    ELSE IF x <= s[1] THEN <<x>> \o s
    ELSE <<s[1]>> \o Insert(x, Tail(s))

RECURSIVE Sorted(_)
\* sorted(s)
Sorted(s) == IF s = <<>> THEN <<>> ELSE Insert(s[1], Sorted(Tail(s)))

\* sorted(s)[n // 2]
MiddleOf(s) == Sorted(s)[Len(s) \div 2 + 1]

\* Line 292, with the inclusive comparison.
InBandInclusive(data) ==
    /\ 2250000 <= SumSq(data.ax, data.ay, data.az)
    /\ SumSq(data.ax, data.ay, data.az) <= 6760000

\* Line 292: 1500 < total < 2600
InBand(data) ==
    /\ 2250000 < SumSq(data.ax, data.ay, data.az)
    /\ SumSq(data.ax, data.ay, data.az) < 6760000

\* The connection test of line 273 left out.
NotConnectedIgnored == FALSE

\* Line 273: if not self.is_connected
NotConnected == ~is_connected

\* Lines 273-277: the connection test, then the first reset.
CalibrateCall(samples) ==
    /\ cal.pc = "idle"
    /\ count' = [count EXCEPT !.calibrate = @ + 1]
    /\ exc' = "none"
    /\ IF NotConnected THEN
           /\ ret' = [op |-> "calibrate", val |-> FALSE]
           /\ UNCHANGED <<ema_initialized, cal>>
       ELSE
           /\ ret' = [op |-> "running"]
           /\ ema_initialized' = FALSE
           /\ cal' = [CalIdle EXCEPT !.pc = "l278", !.samples = samples]
    /\ UNCHANGED <<is_connected, raw_imu_data, imu_data, calibration_offset,
                   filtered_accel, shakeVars, tiltVars, rx, sideVars>>

\* Line 278
CalResetFiltered ==
    /\ cal.pc = "l278"
    /\ filtered_accel' = [num |-> <<0, 0, 0>>, k |-> 0]
    /\ cal' = [cal EXCEPT !.pc = "l281"]
    /\ ema_reset' = TRUE
    /\ UNCHANGED <<is_connected, raw_imu_data, imu_data, calibration_offset,
                   ema_initialized, shakeVars, tiltVars, ret, exc, rx, count,
                   seen_tilt, quiet_run, auxVars>>

\* The offset reset of line 281 left out.
ResetOffsetKept == calibration_offset

\* Line 281
ResetOffset == IMUData

CalResetOffset ==
    /\ cal.pc = "l281"
    /\ calibration_offset' = ResetOffset
    /\ cal' = [cal EXCEPT !.pc = IF cal.samples = 0 THEN "l317" ELSE "loop"]
    /\ UNCHANGED <<is_connected, ingestVars, shakeVars, tiltVars, ret, exc,
                   rx, count, sideVars>>

\* Lines 288-300: the frame after one read of the raw data.
Sampled(c, data) ==
    LET keep == InBand(data)
    IN [c EXCEPT
          !.i = @ + 1,
          !.reads = Append(@, data),
          !.ax_samples = IF keep THEN Append(@, data.ax) ELSE @,
          !.ay_samples = IF keep THEN Append(@, data.ay) ELSE @,
          !.az_samples = IF keep THEN Append(@, data.az) ELSE @,
          !.gx_samples = Append(@, data.gx),
          !.gy_samples = Append(@, data.gy),
          !.gz_samples = Append(@, data.gz)]

\* Where calibrate goes after the sleep of line 301.
AfterSleep(c) ==
    IF c.i < c.samples THEN "loop"
    ELSE IF Len(c.ax_samples) > 0 THEN "l306" ELSE "l312"

\* Lines 287-301: one iteration; the sleep lets the handler run.
CalSample ==
    LET c == Sampled(cal, raw_imu_data)
    IN /\ cal.pc = "loop"
       /\ cal' = [c EXCEPT !.pc = AfterSleep(c)]
       /\ UNCHANGED <<is_connected, ingestVars, calibration_offset, shakeVars,
                      tiltVars, ret, exc, rx, count, sideVars>>

\* Line 308 with the list of line 307.
OffsetAzFromAy(c) == MiddleOf(c.ay_samples)

\* Line 308: sorted(az_samples)[n // 2]
OffsetAz(c) == MiddleOf(c.az_samples)

\* Lines 306-308 and 312-314: one offset per statement.
CalSetOffset ==
    /\ cal.pc \in {"l306", "l307", "l308", "l312", "l313", "l314"}
    /\ calibration_offset' =
         CASE cal.pc = "l306" -> [calibration_offset EXCEPT !.ax = MiddleOf(cal.ax_samples)]
           [] cal.pc = "l307" -> [calibration_offset EXCEPT !.ay = MiddleOf(cal.ay_samples)]
           [] cal.pc = "l308" -> [calibration_offset EXCEPT !.az = OffsetAz(cal)]
           [] cal.pc = "l312" -> [calibration_offset EXCEPT !.gx = MiddleOf(cal.gx_samples)]
           [] cal.pc = "l313" -> [calibration_offset EXCEPT !.gy = MiddleOf(cal.gy_samples)]
           [] cal.pc = "l314" -> [calibration_offset EXCEPT !.gz = MiddleOf(cal.gz_samples)]
    /\ cal' = [cal EXCEPT !.pc =
         CASE cal.pc = "l306" -> "l307"
           [] cal.pc = "l307" -> "l308"
           [] cal.pc = "l308" -> "l312"
           [] cal.pc = "l312" -> "l313"
           [] cal.pc = "l313" -> "l314"
           [] cal.pc = "l314" -> "l317"]
    /\ UNCHANGED <<is_connected, ingestVars, shakeVars, tiltVars, ret, exc,
                   rx, count, sideVars>>

\* Lines 317-331: the estimator and tilt resets (state of the game thread
\* alone), the neutral angle from a fresh reading, and the return.
CalFinish ==
    /\ cal.pc = "l317"
    /\ prev_accel' = None
    /\ delta_buffer' = <<>>
    /\ quiet_count' = 0
    /\ last_valid_tilt' = <<0, 0>>
    /\ neutral_roll' = RawTilt(raw_imu_data)[1]
    /\ neutral_pitch' = RawTilt(raw_imu_data)[2]
    /\ ret' = [op |-> "calibrate", val |-> TRUE]
    /\ cal' = CalIdle
    /\ seen_tilt' = None
    /\ quiet_run' = 0
    /\ UNCHANGED <<is_connected, ingestVars, calibration_offset,
                   last_intensity, exc, rx, count, ema_reset, auxVars>>

CalStep == CalResetFiltered \/ CalResetOffset \/ CalSample \/ CalSetOffset
              \/ CalFinish

(***************************************************************************)
(* The connection, as far as the sensor state sees it: _connect_async      *)
(* sets is_connected from the client (line 173) and subscribes the         *)
(* handler; _disconnect_async and disconnect() clear it (lines 192, 238).  *)
(***************************************************************************)
SetConnected(b) ==
    /\ is_connected # b
    /\ is_connected' = b
    /\ UNCHANGED <<ingestVars, calibration_offset, shakeVars, tiltVars, cal,
                   ret, exc, rx, count, sideVars>>

(***************************************************************************)
(* SpecIngest: the handler alone, fed whole and cut packets.               *)
(***************************************************************************)
IngestVals == {<<0, 0, 2048>>, <<-32768, 32767, 100>>, <<1200, -7, 900>>}

IngestLens == {0, 9, 10, 11, 18}

IngestNotify ==
    /\ count.notify < MaxIngest
    /\ \E sender \in IMU_CHAR_UUIDS, v \in IngestVals, t \in 1..MaxTs,
          len \in IngestLens :
          LET data == Packet(sender, v, t, len)
          IN EmaRoom(sender, data) /\ Notify(sender, data)

NextIngest == IngestNotify

SpecIngest == Init /\ [][NextIngest]_vars

\* The payload is shorter than its characteristic's fields.
TooShort(r) ==
    \/ r.sender = "1601" /\ Len(r.data) < 11
    \/ r.sender = "1603" /\ Len(r.data) < 10

\* Some axis field of a long enough payload is beyond the full scale.
AxisBeyondFullScale(r) ==
    LET at == IF r.sender = "1601" THEN 1 ELSE 0
        axis(i) == S16(r.data[at + 2 * i - 1], r.data[at + 2 * i])
    IN ~TooShort(r) /\ \E i \in 1..3 : axis(i) > 32768 \/ axis(i) < -32768

\* C1: a notification whose payload is too short (accelerometer under 11
\* bytes, gyroscope under 10) or has an axis value beyond +-32768 raises
\* nothing and leaves the raw data, the EMA state, the calibrated data and
\* the timestamps as they were.
C1_BadPacketDropped ==
    [][(count'.notify = count.notify + 1
          /\ (TooShort(rx') \/ AxisBeyondFullScale(rx')))
       => (exc' = "none"
           /\ UNCHANGED <<raw_imu_data, filtered_accel, ema_initialized,
                          imu_data>>)]_vars

\* A 10-byte accelerometer payload was dropped after the filter had blended.
C1_Witness ==
    /\ rx.sender = "1601" /\ Len(rx.data) = 10
    /\ ema_initialized /\ filtered_accel.k > 0
    /\ raw_imu_data.az # 0 /\ imu_data.timestamp # 0
    /\ exc = "none"

\* The accelerometer side of the raw and of the calibrated record.
AccelSide == <<raw_imu_data.ax, raw_imu_data.ay, raw_imu_data.az,
               raw_imu_data.timestamp, filtered_accel, ema_initialized,
               imu_data.ax, imu_data.ay, imu_data.az>>

\* The gyroscope side of the raw and of the calibrated record.
GyroSide == <<raw_imu_data.gx, raw_imu_data.gy, raw_imu_data.gz,
              imu_data.gx, imu_data.gy, imu_data.gz>>

\* C28: an accepted gyroscope packet leaves the raw accelerometer values,
\* the raw timestamp, the EMA filter state and the calibrated accelerometer
\* values unchanged; an accepted accelerometer packet leaves the raw and
\* the calibrated gyroscope values unchanged.
C28_OtherSideUntouched ==
    [][(count'.notify = count.notify + 1
          /\ ~TooShort(rx') /\ ~AxisBeyondFullScale(rx')) =>
         IF rx'.sender = "1603" THEN AccelSide' = AccelSide
                                ELSE GyroSide' = GyroSide]_vars

\* A gyroscope packet stamped 2 was accepted after an accelerometer packet
\* stamped 1 and a gyroscope packet of other values.
C28_Witness ==
    /\ rx.sender = "1603" /\ Len(rx.data) >= 10
    /\ raw_imu_data.timestamp = 1 /\ imu_data.timestamp = 2
    /\ raw_imu_data.az # 0 /\ ema_initialized
    /\ raw_imu_data.gx # 0
    /\ count.notify = 3

(***************************************************************************)
(* SpecCal: calibrations on the game thread while the handler delivers     *)
(* whole packets on the background thread.                                 *)
(***************************************************************************)
CalAccel == {<<0, 0, 1500>>, <<0, 0, 2048>>, <<0, 0, 2600>>,
             <<-1500, 1500, 1500>>}

CalGyro == {<<3, -2, 1>>, <<-5, 4, 0>>}

CalNotify ==
    /\ is_connected
    /\ count.notify < MaxCalNotify
    /\ \/ \E v \in CalAccel :
            LET data == AccelPacket(v, 1)
            IN EmaRoom("1601", data) /\ Notify("1601", data)
       \/ \E v \in CalGyro : Notify("1603", GyroPacket(v, 2))

CalCall ==
    /\ count.calibrate < MaxCalibrations
    /\ \E samples \in 0..MaxSamples : CalibrateCall(samples)

CalConnect == \E b \in BOOLEAN : SetConnected(b)

NextCal == CalConnect \/ CalNotify \/ CalCall \/ CalStep

SpecCal == Init /\ [][NextCal]_vars

\* The accepted reads, as the band of line 292 states it.
StrictlyInBand(d) ==
    LET m2 == d.ax * d.ax + d.ay * d.ay + d.az * d.az
    IN 1500 * 1500 < m2 /\ m2 < 2600 * 2600

AxisOf(reads, a) == [j \in 1..Len(reads) |-> reads[j][a]]

\* m is the median of s: the middle value, or the mean of the two middle
\* values of an even count.
IsMedian(m, s) ==
    LET t == Sorted(s)
        n == Len(s)
    IN IF n % 2 = 1 THEN m = t[(n + 1) \div 2]
       ELSE 2 * m = t[n \div 2] + t[n \div 2 + 1]

Returning == cal.pc = "l317" /\ cal'.pc = "idle"

\* C3: when calibrate completes, each accelerometer offset is the median of
\* the accepted values of its axis and each gyroscope offset the median of
\* all sampled values of its axis, for every count of 1 or more.
C3_OffsetsAreMedians ==
    [][Returning =>
         /\ Len(cal.ax_samples) >= 1 =>
              /\ IsMedian(calibration_offset'.ax, cal.ax_samples)
              /\ IsMedian(calibration_offset'.ay, cal.ay_samples)
              /\ IsMedian(calibration_offset'.az, cal.az_samples)
         /\ Len(cal.gx_samples) >= 1 =>
              /\ IsMedian(calibration_offset'.gx, cal.gx_samples)
              /\ IsMedian(calibration_offset'.gy, cal.gy_samples)
              /\ IsMedian(calibration_offset'.gz, cal.gz_samples)]_vars

\* Every read of the call saw the same vector (0, 0, z), inside the band.
Stationary(reads) ==
    /\ Len(reads) >= 1
    /\ \A j \in 1..Len(reads) :
         /\ reads[j].ax = 0 /\ reads[j].ay = 0
         /\ reads[j].az = reads[1].az
         /\ StrictlyInBand(reads[j])

\* C4 as claimed: for a stationary signal (0, 0, z) the accelerometer
\* offsets are (0, 0, z - 2048), within 20 LSB.
C4_OffsetIsMeasuredMinusOneG ==
    [][(Returning /\ Stationary(cal.reads)) =>
         /\ calibration_offset'.ax = 0
         /\ calibration_offset'.ay = 0
         /\ Abs(calibration_offset'.az - (cal.reads[1].az - 2048)) <= 20]_vars

\* C4 as amended: for a stationary signal (0, 0, z) the accelerometer
\* offsets are (0, 0, z), the measured value itself.
C4_OffsetIsMeasured ==
    [][(Returning /\ Stationary(cal.reads)) =>
         /\ calibration_offset'.ax = 0
         /\ calibration_offset'.ay = 0
         /\ calibration_offset'.az = cal.reads[1].az]_vars

\* Two reads of the same stationary vector, offsets computed.
C4_Witness ==
    /\ cal.pc = "l317" /\ Len(cal.reads) = 2 /\ Stationary(cal.reads)
    /\ calibration_offset.az = 2048

\* C5: a read contributes to the accelerometer offsets only if its
\* magnitude is strictly between 1500 and 2600; the gyroscope values of
\* every read contribute to the gyroscope offsets.
C5_BandFilter ==
    LET acc == SelectSeq(cal.reads, StrictlyInBand)
    IN /\ cal.ax_samples = AxisOf(acc, "ax")
       /\ cal.ay_samples = AxisOf(acc, "ay")
       /\ cal.az_samples = AxisOf(acc, "az")
       /\ cal.gx_samples = AxisOf(cal.reads, "gx")
       /\ cal.gy_samples = AxisOf(cal.reads, "gy")
       /\ cal.gz_samples = AxisOf(cal.reads, "gz")
       /\ cal.pc \in {"l306", "l307", "l308", "l312", "l313", "l314"}
            => Len(cal.reads) = cal.samples
       /\ (cal.pc = "l317" /\ cal.samples > 0) =>
            /\ Len(cal.reads) = cal.samples
            /\ calibration_offset.gx = MiddleOf(AxisOf(cal.reads, "gx"))
            /\ calibration_offset.gy = MiddleOf(AxisOf(cal.reads, "gy"))
            /\ calibration_offset.gz = MiddleOf(AxisOf(cal.reads, "gz"))
            /\ acc # <<>> =>
                 /\ calibration_offset.ax = MiddleOf(AxisOf(acc, "ax"))
                 /\ calibration_offset.ay = MiddleOf(AxisOf(acc, "ay"))
                 /\ calibration_offset.az = MiddleOf(AxisOf(acc, "az"))

\* One read on the band's edge (rejected) and one inside it (accepted),
\* offsets computed.
C5_Witness ==
    /\ cal.pc = "l317" /\ Len(cal.reads) = 2
    /\ cal.reads[1].az = 1500 /\ cal.reads[1].ax = 0
    /\ StrictlyInBand(cal.reads[2])
    /\ Len(cal.ax_samples) = 1

NoneAccepted(reads) == \A j \in 1..Len(reads) : ~StrictlyInBand(reads[j])

\* C6: a calibrate called while connected in which no read passes the band
\* returns true with the three accelerometer offsets 0.
C6_NoAcceptedSample ==
    [][(Returning /\ NoneAccepted(cal.reads)) =>
         /\ ret'.op = "calibrate" /\ ret'.val = TRUE
         /\ calibration_offset'.ax = 0
         /\ calibration_offset'.ay = 0
         /\ calibration_offset'.az = 0]_vars

\* A second calibration, after one that accepted a sample, sees only
\* rejected reads.
C6_Witness ==
    /\ cal.pc = "l317" /\ count.calibrate = 2
    /\ Len(cal.reads) >= 1 /\ NoneAccepted(cal.reads)
    /\ imu_data.az < 0
    /\ calibration_offset.az = 0

(***************************************************************************)
(* Spec: one sensor session as the game drives it: packets on the          *)
(* background thread; calibrate, get_shake_intensity and get_tilt_angle on *)
(* the game thread.                                                        *)
(***************************************************************************)
SessAccel == {<<1500, 0, 1500>>, <<0, 0, 2300>>, <<0, 0, 3500>>, <<0, 0, 700>>}

SessGyro == {<<3, -2, 1>>}

SessNotify ==
    /\ is_connected
    /\ count.notify < MaxNotify
    /\ \/ \E v \in SessAccel :
            LET data == AccelPacket(v, 1)
            IN EmaRoom("1601", data) /\ Notify("1601", data)
       \/ \E v \in SessGyro : Notify("1603", GyroPacket(v, 2))

SessCall ==
    /\ count.calibrate < MaxCalls
    /\ \E samples \in 0..1 : CalibrateCall(samples)

SessConnect == \E b \in BOOLEAN : SetConnected(b)

SessShake == count.poll < MaxPolls /\ GetShakeIntensity

SessTilt == count.poll < MaxPolls /\ GetTiltAngle

Next == SessConnect \/ SessNotify \/ SessCall \/ CalStep \/ SessShake
           \/ SessTilt

Spec == Init /\ [][Next]_vars

\* C2: calibrate called while is_connected is false returns false, raises
\* nothing and leaves the offsets, the EMA state, the shake estimator, the
\* neutral angles and the last-valid tilt as they were.
C2_DisconnectedCalibrate ==
    [][(cal.pc = "idle" /\ count'.calibrate = count.calibrate + 1
          /\ ~is_connected)
       => (/\ ret'.op = "calibrate" /\ ret'.val = FALSE
           /\ exc' = "none"
           /\ cal'.pc = "idle"
           /\ UNCHANGED <<calibration_offset, filtered_accel, ema_initialized,
                          shakeVars, tiltVars>>)]_vars

\* calibrate has just returned false on a session that was calibrated,
\* shaken and tilted before the link went down.
C2_Witness ==
    /\ ret.op = "calibrate" /\ ret.val = FALSE
    /\ ~is_connected
    /\ calibration_offset.az # 0
    /\ ema_initialized
    /\ prev_accel # None /\ last_intensity.num > 0
    /\ last_valid_tilt # <<0, 0>>

\* C7 as claimed: when calibrate returns true the shake estimator is reset
\* (no previous vector, empty buffer, quiet counter 0, cached intensity 0),
\* the last-valid tilt is (0, 0) and the neutral angles are the raw tilt of
\* the reading current at that moment.
C7_CalibrateResetsEstimators ==
    [][(Returning /\ ret'.op = "calibrate" /\ ret'.val = TRUE) =>
         /\ prev_accel' = None
         /\ delta_buffer' = <<>>
         /\ quiet_count' = 0
         /\ last_intensity' = Zero
         /\ last_valid_tilt' = <<0, 0>>
         /\ neutral_roll' = RawTilt(raw_imu_data')[1]
         /\ neutral_pitch' = RawTilt(raw_imu_data')[2]]_vars

\* A step in which get_tilt_angle() is called and returns.
TiltCall == count'.poll = count.poll + 1 /\ ret'.op = "get_tilt_angle"

\* C11 as claimed: for every valid raw reading, the flat one (0, 0, az > 0)
\* under a non-zero neutral angle included, get_tilt_angle returns the
\* reading's shortest-path tilt relative to the neutral angles and stores
\* that pair as the last valid tilt.
C11_ValidReadingTilt ==
    [][(TiltCall /\ ValidReading(raw_imu_data)) =>
         /\ ret'.val = RelativeTilt(raw_imu_data, neutral_roll, neutral_pitch)
         /\ last_valid_tilt' = ret'.val]_vars

(***************************************************************************)
(* SpecTilt: the tilt estimator polled while packets turn the device:      *)
(* tilted either way about the roll axis, flat, upside down about the      *)
(* pitch axis (raw pitch at +-135 degrees, across the wrap), or invalid.   *)
(***************************************************************************)
TiltAccel == {<<1500, 0, 1500>>, <<-1500, 0, 1500>>, <<0, 0, 2300>>,
              <<0, 0, 700>>, <<0, 1500, -1500>>, <<0, -1500, -1500>>}

TiltNotify ==
    /\ is_connected
    /\ count.notify < MaxTiltNotify
    /\ \E v \in TiltAccel :
          LET data == AccelPacket(v, 1)
          IN EmaRoom("1601", data) /\ Notify("1601", data)

TiltPoll == count.poll < MaxTiltPolls /\ GetTiltAngle

TiltCalibrate == count.calibrate < 1 /\ CalibrateCall(1)

TiltConnect == SetConnected(TRUE)

NextTilt == TiltConnect \/ TiltNotify \/ TiltCalibrate \/ CalStep \/ TiltPoll

SpecTilt == Init /\ [][NextTilt]_vars

\* C12 as claimed: when the current raw reading is invalid and a valid
\* reading has been returned since the last calibration, get_tilt_angle
\* returns the relative tilt of the most recent valid reading and leaves the
\* cache unchanged.
C12_InvalidReadingTilt ==
    [][(TiltCall /\ ~ValidReading(raw_imu_data) /\ seen_tilt # None) =>
         /\ ret'.val = seen_tilt
         /\ last_valid_tilt' = last_valid_tilt]_vars

(***************************************************************************)
(* SpecAngle: _angle_diff called on every pair of whole-degree angles in   *)
(* [-180, 180].                                                            *)
(***************************************************************************)
Angles == -180..180

AngleCall ==
    /\ ret.op = "none"
    /\ \E a \in Angles, b \in Angles :
          ret' = [op |-> "_angle_diff", a |-> a, b |-> b, val |-> AngleDiff(a, b)]
    /\ UNCHANGED <<is_connected, ingestVars, calibration_offset, shakeVars,
                   tiltVars, cal, exc, rx, count, sideVars>>

NextAngle == AngleCall

SpecAngle == Init /\ [][NextAngle]_vars

\* C13: for angles a and b in [-180, 180], _angle_diff(a, b) returns a
\* value in [-180, 180] congruent to a - b modulo 360, and
\* _angle_diff(179, -179) has absolute value 2.
C13_AngleDiff ==
    ret.op = "_angle_diff" =>
        /\ ret.val \in -180..180
        /\ (ret.val - (ret.a - ret.b)) % 360 = 0
        /\ (ret.a = 179 /\ ret.b = -179) => Abs(ret.val) = 2

\* _angle_diff(179, -179) has returned, by the short way round.
C13_Witness ==
    /\ ret.op = "_angle_diff" /\ ret.a = 179 /\ ret.b = -179
    /\ ret.val = -2

(***************************************************************************)
(* SpecLock: the same session with the lock made visible.  A callback      *)
(* blocks at line 113 until the lock is free and runs its body holding it; *)
(* the game thread holds it only inside get_raw_imu_data() (lines          *)
(* 255-264), which calibrate calls once per sample (line 288) and once     *)
(* from _calculate_raw_tilt_angle (line 326), and which the two estimators *)
(* call on entry (lines 346, 421).  time.sleep(delay), line 301, is long   *)
(* enough for a callback that was blocked on the lock and has been woken   *)
(* by its release to take it.                                              *)
(***************************************************************************)
LockAccel == {<<0, 0, 2048>>, <<1500, 0, 1500>>}

LockGyro == {<<3, -2, 1>>}

\* Line 113 reached: the lock is taken if free, else the callback blocks.
Arrive(sender, data) ==
    /\ handler.pc = "idle"
    /\ handler' = [pc |-> IF lock = "none" THEN "locked" ELSE "waiting",
                   sender |-> sender, data |-> data]
    /\ lock' = IF lock = "none" THEN "handler" ELSE lock
    /\ UNCHANGED <<is_connected, ingestVars, calibration_offset, shakeVars,
                   tiltVars, cal, ret, exc, rx, count, twin, seen_tilt,
                   ema_reset, quiet_run, scorerVars, linkVars>>

HandlerArrive ==
    /\ is_connected
    /\ count.notify < MaxLockNotify
    /\ \/ \E v \in LockAccel : Arrive("1601", AccelPacket(v, 1))
       \/ \E v \in LockGyro : Arrive("1603", GyroPacket(v, 2))

\* Line 113: the blocked callback gets the lock.
HandlerAcquire ==
    /\ handler.pc = "waiting"
    /\ lock = "none"
    /\ lock' = "handler"
    /\ handler' = [handler EXCEPT !.pc = "locked"]
    /\ UNCHANGED <<is_connected, ingestVars, calibration_offset, shakeVars,
                   tiltVars, cal, ret, exc, rx, count, twin, seen_tilt,
                   ema_reset, quiet_run, scorerVars, linkVars>>

\* Lines 114-167: the body, and the release at the end of the with block.
HandlerBody ==
    /\ handler.pc = "locked"
    /\ Handle(handler.sender, handler.data)
    /\ lock' = "none"
    /\ handler' = HandlerIdle

\* The lock held through the sleep of line 301.
LockAfterReadHeld == "game"

\* Line 264: get_raw_imu_data() returns and its with block releases.
LockAfterRead == "none"

\* Line 288: calibrate enters get_raw_imu_data() and takes the lock.
LockCalAcquire ==
    /\ cal.pc = "loop"
    /\ lock = "none"
    /\ lock' = "game"
    /\ cal' = [cal EXCEPT !.pc = "l288"]
    /\ UNCHANGED <<is_connected, ingestVars, calibration_offset, shakeVars,
                   tiltVars, ret, exc, rx, count, twin, seen_tilt, handler,
                   ema_reset, quiet_run, scorerVars, linkVars>>

\* Lines 288-300: the copy under the lock, the release, the appends.
LockCalRead ==
    /\ cal.pc = "l288"
    /\ cal' = [Sampled(cal, raw_imu_data) EXCEPT !.pc = "l301"]
    /\ lock' = LockAfterRead
    /\ UNCHANGED <<is_connected, ingestVars, calibration_offset, shakeVars,
                   tiltVars, ret, exc, rx, count, twin, seen_tilt, handler,
                   ema_reset, quiet_run, scorerVars, linkVars>>

\* Line 301: time.sleep(delay); a callback woken by the release runs first.
\* A lock still held through the sleep would be released after it.
LockCalSleep ==
    /\ cal.pc = "l301"
    /\ ~(handler.pc = "waiting" /\ lock = "none")
    /\ cal' = [cal EXCEPT !.pc = AfterSleep(cal)]
    /\ lock' = IF lock = "game" THEN "none" ELSE lock
    /\ UNCHANGED <<is_connected, ingestVars, calibration_offset, shakeVars,
                   tiltVars, ret, exc, rx, count, twin, seen_tilt, handler,
                   ema_reset, quiet_run, scorerVars, linkVars>>

LockCalibrate ==
    /\ count.calibrate < 1
    /\ \E samples \in 1..MaxLockSamples : CalibrateCall(samples)

\* The statements of calibrate that take no lock.
LockCalWrite == CalResetFiltered \/ CalResetOffset \/ CalSetOffset

\* Lines 317-331; line 326 reads the raw data under the lock.
LockCalFinish == lock = "none" /\ CalFinish

LockShake == lock = "none" /\ count.poll < MaxLockPolls /\ GetShakeIntensity

LockTilt == lock = "none" /\ count.poll < MaxLockPolls /\ GetTiltAngle

LockConnect == SetConnected(TRUE)

NextLock ==
    \/ LockConnect \/ HandlerArrive \/ HandlerAcquire \/ HandlerBody
    \/ LockCalibrate \/ LockCalWrite \/ LockCalAcquire \/ LockCalRead
    \/ LockCalSleep \/ LockCalFinish \/ LockShake \/ LockTilt

SpecLock == Init /\ [][NextLock]_vars

\* The state the lock is said to protect.
sharedVars == <<ingestVars, calibration_offset, shakeVars, tiltVars>>

\* A step of the callback's body.
HandlerStep == handler.pc = "locked" /\ handler'.pc = "idle"

\* C14 as claimed: every write to the shared sensor state, by the handler,
\* calibrate, get_shake_intensity or get_tilt_angle, is made by a thread
\* that holds the lock.
C14_WritesUnderLock ==
    [][sharedVars' # sharedVars =>
         IF HandlerStep THEN lock = "handler" ELSE lock = "game"]_vars

FirstSampleAfterReset == ema_reset /\ ~ema_reset'

\* C22 as claimed: under every interleaving of calibrate with the
\* callbacks, the first accelerometer sample processed after calibrate has
\* reset the EMA filter leaves the filtered value equal to that raw sample:
\* it is never blended with the reset value zero.
C22_FirstSampleSeeds ==
    [][FirstSampleAfterReset =>
         filtered_accel' = Seeded(<<raw_imu_data'.ax, raw_imu_data'.ay,
                                    raw_imu_data'.az>>)]_vars

\* The handler has run on a notification.
Handled == count'.notify = count.notify + 1

\* The notification r passes the length and the range tests.
AcceptedPacket(r) ==
    LET p == ParsePacket(r.sender = "1601", r.data)
    IN p.kind = "ok" /\ ~OutOfRange(p.values)

\* The three axis values the notification r carries.
ValuesOf(r) == ParsePacket(r.sender = "1601", r.data).values

\* The rational triple g is 0.15 * v + 0.85 * f.
IsBlendOf(g, f, v) ==
    \A i \in 1..3 :
       g.num[i] * Pow20(f.k + 1)
          = (3 * v[i] * Pow20(f.k) + 17 * f.num[i]) * Pow20(g.k)

\* The rational triple g is v.
IsRaw(g, v) == \A i \in 1..3 : g.num[i] = v[i] * Pow20(g.k)

AccelOffsets == <<calibration_offset.ax, calibration_offset.ay,
                  calibration_offset.az>>

GyroOffsets == <<calibration_offset.gx, calibration_offset.gy,
                 calibration_offset.gz>>

\* The accelerometer offsets the running calibrate ends with (lines 304-308).
FinalAccelOffsets ==
    IF Len(cal.ax_samples) > 0
    THEN <<MiddleOf(cal.ax_samples), MiddleOf(cal.ay_samples), OffsetAz(cal)>>
    ELSE <<0, 0, 0>>

\* The gyroscope offsets the running calibrate ends with (lines 310-314).
FinalGyroOffsets ==
    <<MiddleOf(cal.gx_samples), MiddleOf(cal.gy_samples),
      MiddleOf(cal.gz_samples)>>

\* C29 as claimed: under every interleaving of calibrate with the
\* callbacks, the three accelerometer offsets (and likewise the three
\* gyroscope offsets) the handler subtracts from one sample are those of a
\* single calibration: while calibrate is writing its medians, either the
\* three it has reset or the three it ends with, never some of each.
C29_SingleCalibrationOffsets ==
    [][(HandlerStep /\ AcceptedPacket(rx')) =>
         IF rx'.sender = "1601"
         THEN cal.pc \in {"l307", "l308"} =>
                 AccelOffsets \in {<<0, 0, 0>>, FinalAccelOffsets}
         ELSE cal.pc \in {"l313", "l314"} =>
                 GyroOffsets \in {<<0, 0, 0>>, FinalGyroOffsets}]_vars

(***************************************************************************)
(* SpecReads: the four per-frame reads of the game loop between packets.   *)
(***************************************************************************)
\* get_imu_data(), lines 240-251: a copy made under the lock.
GetImuData ==
    /\ cal.pc = "idle"
    /\ ret' = [op |-> "get_imu_data", val |-> imu_data]
    /\ exc' = "none"
    /\ count' = [count EXCEPT !.poll = @ + 1]
    /\ UNCHANGED <<is_connected, ingestVars, calibration_offset, shakeVars,
                   tiltVars, cal, rx, sideVars>>

\* get_raw_imu_data(), lines 253-264: a copy made under the lock.
GetRawImuData ==
    /\ cal.pc = "idle"
    /\ ret' = [op |-> "get_raw_imu_data", val |-> raw_imu_data]
    /\ exc' = "none"
    /\ count' = [count EXCEPT !.poll = @ + 1]
    /\ UNCHANGED <<is_connected, ingestVars, calibration_offset, shakeVars,
                   tiltVars, cal, rx, sideVars>>

ReadAccel == {<<1500, 0, 1500>>, <<0, 0, 2300>>, <<0, 0, 700>>}

ReadGyro == {<<3, -2, 1>>}

ReadNotify ==
    /\ is_connected
    /\ count.notify < MaxReadNotify
    /\ \/ \E v \in ReadAccel :
            LET data == AccelPacket(v, 1)
            IN EmaRoom("1601", data) /\ Notify("1601", data)
       \/ \E v \in ReadGyro : Notify("1603", GyroPacket(v, 2))

ReadConnect == SetConnected(TRUE)

ReadImu == count.poll < MaxReads /\ GetImuData

ReadRaw == count.poll < MaxReads /\ GetRawImuData

ReadShake == count.poll < MaxReads /\ GetShakeIntensity

ReadTilt == count.poll < MaxReads /\ GetTiltAngle

NextReads == ReadConnect \/ ReadNotify \/ ReadImu \/ ReadRaw \/ ReadShake
                \/ ReadTilt

SpecReads == Init /\ [][NextReads]_vars

\* The fields of the sensor session.
sessionVars == <<is_connected, ingestVars, calibration_offset, shakeVars,
                 tiltVars>>

\* A step in which one of the four reads is called and returns.
ReadCall ==
    /\ count'.poll = count.poll + 1
    /\ ret'.op \in {"get_imu_data", "get_raw_imu_data", "get_shake_intensity",
                    "get_tilt_angle"}

\* C16 as claimed: get_imu_data, get_raw_imu_data, get_shake_intensity and
\* get_tilt_angle change no field of the sensor session.
C16_ReadsChangeNothing ==
    [][ReadCall => UNCHANGED sessionVars]_vars

(***************************************************************************)
(* SpecLink: the life of the connection, lines 169-238.  connect() starts  *)
(* the background thread, which connects, keeps the loop alive while       *)
(* _running and is_connected hold, and disconnects in its finally block;   *)
(* the radio link can drop at any moment, which the transport shows as     *)
(* client.is_connected = False.  No disconnect callback is registered      *)
(* (line 171) and the keep-alive loop awaits nothing but asyncio.sleep.    *)
(***************************************************************************)
\* What the connection steps leave alone.
sensorVars == <<ingestVars, calibration_offset, shakeVars, tiltVars, cal, exc,
                rx, twin, seen_tilt, lockVars, ema_reset, quiet_run,
                scorerVars>>

\* connect(blocking=False), lines 212-231.
Connect ==
    /\ ret.op # "joining"
    /\ thread \in {"none", "closed"}
    /\ count.connect < MaxConnects
    /\ count' = [count EXCEPT !.connect = @ + 1]
    /\ ret' = [op |-> "connect", val |-> is_connected]
    /\ IF running THEN UNCHANGED <<running, thread>>
       ELSE running' = TRUE /\ thread' = "l199"
    /\ UNCHANGED <<is_connected, client, sensorVars>>

\* Line 199, _connect_async: the client connects or raises; is_connected is
\* copied from the client (line 173).
ThreadConnect ==
    /\ thread = "l199"
    /\ \E ok \in BOOLEAN :
          /\ client' = [exists |-> TRUE, is_connected |-> ok]
          /\ is_connected' = ok
          /\ thread' = "l202"
    /\ UNCHANGED <<running, ret, count, sensorVars>>

\* Lines 202-203: while self._running and self.is_connected: sleep(0.1)
KeepAlive ==
    /\ thread = "l202"
    /\ thread' = IF running /\ is_connected THEN "l202" ELSE "l208"
    /\ UNCHANGED <<is_connected, running, client, ret, count, sensorVars>>

\* Lines 208-209, _disconnect_async and the close of the loop.
ThreadDisconnect ==
    /\ thread = "l208"
    /\ client' = [client EXCEPT !.is_connected = FALSE]
    /\ is_connected' = FALSE
    /\ thread' = "closed"
    /\ UNCHANGED <<running, ret, count, sensorVars>>

\* The radio link drops.
LinkLoss ==
    /\ client.is_connected
    /\ client' = [client EXCEPT !.is_connected = FALSE]
    /\ UNCHANGED <<is_connected, running, thread, ret, count, sensorVars>>

\* disconnect(), lines 235-237: the flag, then the join.
DisconnectCall ==
    /\ ret.op # "joining"
    /\ running' = FALSE
    /\ ret' = [op |-> "joining"]
    /\ UNCHANGED <<is_connected, client, thread, count, sensorVars>>

\* Lines 237-238: the join ends, with the thread or by its timeout.
DisconnectReturn ==
    /\ ret.op = "joining"
    /\ is_connected' = FALSE
    /\ ret' = [op |-> "disconnect"]
    /\ UNCHANGED <<running, client, thread, count, sensorVars>>

LinkAccel == {<<0, 0, 2048>>, <<1500, 0, 1500>>}

\* A packet reaches the handler while the link is up.
LinkNotify ==
    /\ client.is_connected
    /\ count.notify < MaxLinkNotify
    /\ \E v \in LinkAccel :
          LET data == AccelPacket(v, 1)
          IN EmaRoom("1601", data) /\ Notify("1601", data)

ThreadStep == ThreadConnect \/ KeepAlive \/ ThreadDisconnect

NextLink == Connect \/ ThreadStep \/ LinkLoss \/ DisconnectCall
               \/ DisconnectReturn \/ LinkNotify

\* The background thread keeps running; the game and the radio need not act.
SpecLink == Init /\ [][NextLink]_vars /\ WF_vars(ThreadStep)

\* The link is lost under a running session.
LinkLost ==
    /\ running /\ thread = "l202"
    /\ is_connected /\ ~client.is_connected

\* C17 as claimed: if the link is lost while the session is running, then
\* is_connected eventually becomes false, unless disconnect() is called.
C17_LinkLossDetected == LinkLost ~> (~is_connected \/ ~running)

\* connect() has been called.
Connecting == count'.connect = count.connect + 1

\* The background thread has finished a connection attempt that failed or
\* was lost, and disconnect() has not been called since connect().
AttemptFailed == thread = "closed" /\ ~is_connected /\ running

\* C30 as claimed: after a connection attempt has ended in failure, a
\* connect() call made without a disconnect() in between starts a new
\* attempt.
C30_ConnectRetries ==
    [][(Connecting /\ AttemptFailed) => thread' = "l199"]_vars

(***************************************************************************)
(* The similarity scorers, src/game/utils/cv_scoring.py.  A binary image   *)
(* is the set of its lit pixels.  A sub-score is kept in hundredths of a   *)
(* point (0..10000) and a weight in hundredths (0.35 is 35), so that the   *)
(* weighted total is sum / 10000.  OpenCV's drawing is modelled to the     *)
(* pixel: a line is the pixels nearest to it, a stroke of thickness t the  *)
(* pixels within t / 2 of the line.                                        *)
(***************************************************************************)
Max(a, b) == IF a >= b THEN a ELSE b

\* The nearest whole number to n / d, d > 0.
Round(n, d) ==
    IF n >= 0 THEN (2 * n + d) \div (2 * d) ELSE -((2 * (-n) + d) \div (2 * d))

\* The pixels of the segment from p to q.
LinePoints(p, q) ==
    LET dx == q[1] - p[1]
        dy == q[2] - p[2]
        n == Max(Abs(dx), Abs(dy))
    IN IF n = 0 THEN {p}
       ELSE {<<p[1] + Round(t * dx, n), p[2] + Round(t * dy, n)>> : t \in 0..n}

\* The pixels of the open polyline through the points.
PolylinePoints(points) ==
    UNION {LinePoints(points[i], points[i + 1]) : i \in 1..(Len(points) - 1)}

CanvasPixels(size) == (0..(size[1] - 1)) \X (0..(size[2] - 1))

Disc(r) == {o \in (-r..r) \X (-r..r) : o[1] * o[1] + o[2] * o[2] <= r * r}

\* cv2.polylines / cv2.line with a thickness, clipped to the canvas.
Stroke(line, thickness, size) ==
    {<<q[1] + o[1], q[2] + o[2]>> : q \in line, o \in Disc(thickness \div 2)}
        \cap CanvasPixels(size)

RECURSIVE SumCoord(_, _, _)
\* The sum of the i-th coordinate over the pixels of img, none above v.
SumCoord(img, i, v) ==
    IF v < 0 THEN 0
    ELSE v * Cardinality({q \in img : q[i] = v}) + SumCoord(img, i, v - 1)

\* default_weights.update(weights) when weights is given and not empty.
\* A weights argument is [keys, val]: the keys it holds and their values.
ApplyWeights(default, weights) ==
    [k \in DOMAIN default |->
        IF k \in weights.keys THEN weights.val[k] ELSE default[k]]

(***************************************************************************)
(* CircleSimilarityScorer, lines 50-311, built for a 16 x 12 canvas with   *)
(* the target circle of radius 4 at (6, 6).                                *)
(***************************************************************************)
LINE_WIDTH == 6

MIN_POINTS == 10

\* _points_to_binary_image(points), the outline form (lines 85-94).
PointsToBinaryImage(points) ==
    IF Len(points) < 2 THEN {}
    ELSE Stroke(PolylinePoints(points), LINE_WIDTH, circle_canvas_size)

\* The contour of the image encloses some area (M["m00"] # 0).
HasArea(img) ==
    \E q \in img : {<<q[1] + 1, q[2]>>, <<q[1], q[2] + 1>>,
                     <<q[1] + 1, q[2] + 1>>} \subseteq img

\* (int(m10 / m00), int(m01 / m00)), lines 183-184.
Centroid(img) ==
    <<SumCoord(img, 1, circle_canvas_size[1] - 1) \div Cardinality(img),
      SumCoord(img, 2, circle_canvas_size[2] - 1) \div Cardinality(img)>>

\* calculate_center_distance_score, lines 159-192.
CenterDistanceScore(points) ==
    LET img == PointsToBinaryImage(points)
        c == Centroid(img)
        d == ISqrt(10000 * ((c[1] - target_center[1]) * (c[1] - target_center[1])
                          + (c[2] - target_center[2]) * (c[2] - target_center[2])))
    IN IF Len(points) < 3 THEN 0
       ELSE IF img = {} THEN 0
       ELSE IF ~HasArea(img) THEN 0
       ELSE 10000 - Min(10000, (100 * d) \div target_radius)

\* The radius of cv2.minEnclosingCircle, in hundredths of a pixel: half
\* the widest span of the stroke.
EnclosingRadius(line, thickness) ==
    LET spans == {(a[1] - b[1]) * (a[1] - b[1]) + (a[2] - b[2]) * (a[2] - b[2]) :
                     a \in line, b \in line}
        widest == CHOOSE m \in spans : \A x \in spans : x <= m
    IN (ISqrt(10000 * widest) + 100 * 2 * (thickness \div 2)) \div 2

\* calculate_radius_match_score, lines 194-220.
RadiusMatchScore(points) ==
    LET img == PointsToBinaryImage(points)
        radius == EnclosingRadius(PolylinePoints(points), LINE_WIDTH)
    IN IF Len(points) < 3 THEN 0
       ELSE IF img = {} THEN 0
       ELSE 10000 - Min(10000, (100 * Abs(radius - 100 * target_radius))
                                  \div target_radius)

\* What np.clip(..., 0, 100) can return (lines 125, 157, 249): the shape
\* matching, the circularity and the Fourier concentration are OpenCV's and
\* NumPy's arithmetic, of which the model keeps only the clip.
Clipped == {0, 10000}

\* The three sub-scores that need MIN_POINTS points (lines 104, 137, 232).
GuardedScore(points, clipped) == IF Len(points) < MIN_POINTS THEN 0 ELSE clipped

CircleDefaultWeights ==
    [hu_moment |-> 30, circularity |-> 20, center_distance |-> 20,
     radius_match |-> 15, fourier |-> 15]

\* Lines 303-304: the two sub-scores computed from the outline.
OutlineScores(points) ==
    [center_distance |-> CenterDistanceScore(points),
     radius_match |-> RadiusMatchScore(points)]

\* Lines 300-306: the five sub-scores.
CircleScores(points, outline, lib) ==
    [hu_moment |-> GuardedScore(points, lib.hu_moment),
     circularity |-> GuardedScore(points, lib.circularity),
     center_distance |-> outline.center_distance,
     radius_match |-> outline.radius_match,
     fourier |-> GuardedScore(points, lib.fourier)]

\* Lines 288-297 and 309-311: the weights, the weighted sum and its int().
CircleTotal(scores, weights) ==
    LET w == ApplyWeights(CircleDefaultWeights, weights)
    IN Trunc(scores.hu_moment * w.hu_moment
               + scores.circularity * w.circularity
               + scores.center_distance * w.center_distance
               + scores.radius_match * w.radius_match
               + scores.fourier * w.fourier, 10000)

(***************************************************************************)
(* ShapeSimilarityScorer, lines 314-776, built for a 40 x 40 canvas; with  *)
(* no target chosen get_combined_score draws the H (line 760).             *)
(***************************************************************************)
THICKNESS == 8

\* create_target_h_image(), lines 327-358.
TargetH ==
    LET w == shape_canvas_size[1]
        h == shape_canvas_size[2]
        margin == Min(w, h) \div 6
        left_x == margin
        right_x == w - margin
        mid_y == h \div 2
    IN Stroke(LinePoints(<<left_x, margin>>, <<left_x, h - margin>>)
                \cup LinePoints(<<right_x, margin>>, <<right_x, h - margin>>)
                \cup LinePoints(<<left_x, mid_y>>, <<right_x, mid_y>>),
              H_THICKNESS, shape_canvas_size)

\* points_to_image with a lone point drawn as a dot: the length test of
\* line 653 left out.
PointsToImageUnguarded(points) ==
    Stroke({points[i] : i \in 1..Len(points)} \cup PolylinePoints(points),
           THICKNESS, shape_canvas_size)

\* points_to_image(points), lines 637-659.
PointsToImage(points) ==
    IF Len(points) < 2 THEN {}
    ELSE Stroke(PolylinePoints(points), THICKNESS, shape_canvas_size)

\* cv2.dilate(img, np.ones((k, k)), iterations)
Dilate(img, k, iterations) ==
    LET r == (k \div 2) * iterations
    IN {<<q[1] + o[1], q[2] + o[2]>> : q \in img, o \in (-r..r) \X (-r..r)}
          \cap CanvasPixels(shape_canvas_size)

\* The target dilated as calculate_iou does (lines 673-674).
TargetForIoU == Dilate(TargetH, 5, 2)

\* The target dilated as calculate_precision does (lines 725-726).
TargetForPrecision == Dilate(TargetH, 7, 3)

\* calculate_iou, lines 661-683.
IoU(drawn) ==
    LET intersection == Cardinality(drawn \cap TargetForIoU)
        union == Cardinality(drawn \cup TargetForIoU)
    IN IF union = 0 THEN 0 ELSE (10000 * intersection) \div union

\* calculate_coverage, lines 685-709.
Coverage(drawn) ==
    LET target_pixels == Cardinality(TargetH)
        covered == Cardinality(Dilate(drawn, 5, 1) \cap TargetH)
    IN IF target_pixels = 0 THEN 0
       ELSE Min(10000, (10000 * covered) \div target_pixels)

\* calculate_precision, lines 711-735.
Precision(drawn) ==
    LET drawn_pixels == Cardinality(drawn)
        on_target == Cardinality(drawn \cap TargetForPrecision)
    IN IF drawn_pixels = 0 THEN 0 ELSE (10000 * on_target) \div drawn_pixels

ShapeDefaultWeights == [coverage |-> 35, precision |-> 35, iou |-> 30]

\* Lines 763-771: the raster and the three sub-scores.
ShapeScores(points) ==
    LET drawn == PointsToImage(points)
    IN [coverage |-> Coverage(drawn), precision |-> Precision(drawn),
        iou |-> IoU(drawn)]

\* Lines 750-757 and 774-776: the weights, the weighted sum and its int().
ShapeTotal(scores, weights) ==
    LET w == ApplyWeights(ShapeDefaultWeights, weights)
    IN Trunc(scores.coverage * w.coverage + scores.precision * w.precision
               + scores.iou * w.iou, 10000)

(***************************************************************************)
(* SpecScore: one call of get_combined_score, of either scorer, on a       *)
(* trajectory and a weights argument: absent, overriding one weight, or    *)
(* overriding all; the shape scorer with or without a target created       *)
(* beforehand.  The scorers only read the list they are given (np.array    *)
(* copies it, lines 89 and 656): points_left is the list after the call.   *)
(***************************************************************************)
\* Trajectories of the circle stage: at the target's centre, outside the
\* target, or between the two.
CirclePoints == {<<6, 6>>, <<12, 6>>}

Trajectories == UNION {[1..n -> CirclePoints] : n \in 0..MaxPoints}

NoWeights == [keys |-> {}, val |-> CircleDefaultWeights]

CircleWeightArgs ==
    {NoWeights,
     [keys |-> {"center_distance"},
      val |-> [CircleDefaultWeights EXCEPT !.center_distance = 50]],
     [keys |-> DOMAIN CircleDefaultWeights,
      val |-> [k \in DOMAIN CircleDefaultWeights |-> 20]]}

LibScores == [hu_moment : Clipped, circularity : Clipped, fourier : Clipped]

CircleScore ==
    /\ ret.op = "none"
    /\ \E points \in Trajectories :
          \E outline \in {OutlineScores(points)} :
             \E lib \in LibScores, weights \in CircleWeightArgs :
                \E scores \in {CircleScores(points, outline, lib)} :
                   ret' = [op |-> "circle", points |-> points,
                           points_left |-> points,
                           overridden |-> weights.keys,
                           total |-> CircleTotal(scores, weights),
                           scores |-> scores]
    /\ UNCHANGED <<is_connected, ingestVars, calibration_offset, shakeVars,
                   tiltVars, cal, exc, rx, count, sideVars>>

\* create_target_h_image(), lines 327-358, as the circuit stage calls it
\* before the player draws.
CreateTargetH ==
    /\ ret.op = "none"
    /\ ~target_image.created
    /\ target_image' = HTarget
    /\ UNCHANGED <<is_connected, ingestVars, calibration_offset, shakeVars,
                   tiltVars, cal, ret, exc, rx, count, seen_tilt, ema_reset,
                   quiet_run, twin, lockVars, linkVars, target_contour>>

\* Trajectories of the circuit stage: along the left bar of the H and into
\* the gap above its cross bar.
ShapePoints == {<<6, 6>>, <<6, 34>>, <<20, 4>>}

ShapeTrajectories == UNION {[1..n -> ShapePoints] : n \in 0..MaxShapePoints}

ShapeWeightArgs ==
    {[keys |-> {}, val |-> ShapeDefaultWeights],
     [keys |-> {"coverage"}, val |-> [ShapeDefaultWeights EXCEPT !.coverage = 50]],
     [keys |-> DOMAIN ShapeDefaultWeights,
      val |-> [coverage |-> 40, precision |-> 40, iou |-> 20]]}

ShapeScore ==
    /\ ret.op = "none"
    /\ \E points \in ShapeTrajectories :
          \E scores \in {ShapeScores(points)} :
             \E weights \in ShapeWeightArgs :
                ret' = [op |-> "shape", points |-> points,
                        points_left |-> points,
                        overridden |-> weights.keys,
                        total |-> ShapeTotal(scores, weights),
                        scores |-> scores]
    /\ target_image' = IF target_image.created THEN target_image ELSE HTarget
    /\ UNCHANGED <<is_connected, ingestVars, calibration_offset, shakeVars,
                   tiltVars, cal, exc, rx, count, seen_tilt, ema_reset,
                   quiet_run, twin, lockVars, linkVars, target_contour>>

NextScore == CircleScore \/ ShapeScore \/ CreateTargetH

SpecScore == Init /\ [][NextScore]_vars

\* Every sub-score of a returned breakdown is 0.
AllZero(scores) == \A k \in DOMAIN scores : scores[k] = 0

\* C18: for a trajectory of 0 or 1 points, get_combined_score of the circle
\* scorer and of the shape scorer return total 0 with every sub-score 0, and
\* raise nothing.
C18_TooFewPoints ==
    (ret.op \in {"circle", "shape"} /\ Len(ret.points) <= 1) =>
        /\ ret.total = 0
        /\ AllZero(ret.scores)
        /\ exc = "none"

\* The shape scorer has scored a one-point trajectory under overridden
\* weights.
C18_Witness ==
    /\ ret.op = "shape" /\ Len(ret.points) = 1
    /\ ret.overridden # {}
    /\ ret.total = 0

\* C19 as claimed: the circle scorer returns total 0 for every trajectory
\* of fewer than 10 points.
C19_BelowMinimumPoints ==
    (ret.op = "circle" /\ Len(ret.points) < MIN_POINTS) => ret.total = 0

\* C20 as claimed: whatever the points and the weights argument, the total
\* is a whole number in 0..100 (every sub-score lying in [0, 100]).
C20_TotalInRange ==
    ret.op \in {"circle", "shape"} =>
        ((\A k \in DOMAIN ret.scores : ret.scores[k] \in 0..10000)
            => ret.total \in 0..100)

\* A call of get_combined_score, of either scorer.
ScoreCall == ret.op = "none" /\ ret'.op \in {"circle", "shape"}

\* C21 as claimed: get_combined_score of either scorer leaves the points
\* list it is given, the shape scorer's target image and the circle
\* scorer's target contours as they were before the call, also when no
\* target image has been created yet.
C21_ScoringChangesNothing ==
    [][ScoreCall =>
         /\ ret'.points_left = ret'.points
         /\ target_image' = target_image
         /\ target_contour' = target_contour]_vars

(***************************************************************************)
(* SpecShake: the shake estimator polled at frame rate while packets move  *)
(* the reading along one axis: by less than the noise threshold, by a      *)
(* normal amount and by more than the outlier threshold; the reading       *)
(* before the first packet is the invalid (0, 0, 0).                       *)
(***************************************************************************)
ShakeAccel == {<<0, 0, 2048>>, <<0, 0, 2148>>, <<0, 0, 3548>>, <<0, 0, 5648>>}

ShakeNotify ==
    /\ is_connected
    /\ count.notify < MaxShakeNotify
    /\ \E v \in ShakeAccel :
          LET data == AccelPacket(v, 1)
          IN Notify("1601", data)

ShakePoll == count.poll < MaxShakePolls /\ GetShakeIntensity

ShakeCall == count.calibrate < 1 /\ CalibrateCall(1)

ShakeConnect == SetConnected(TRUE)

NextShake == ShakeConnect \/ ShakeNotify \/ ShakePoll \/ ShakeCall \/ CalStep

SpecShake == Init /\ [][NextShake]_vars

\* The rational x lies in [0, 1].
InUnit(x) == x.len > 0 /\ 0 <= x.num /\ x.num <= 3072 * x.len

\* C8: after any sequence of packets, calibrations and polls, every value
\* get_shake_intensity returns, and the cached last intensity, is in [0, 1].
C8_IntensityInUnit ==
    /\ InUnit(last_intensity)
    /\ ret.op = "get_shake_intensity" => InUnit(ret.val)

\* A poll returned an intensity strictly between 0 and 1 from a window of
\* three deltas; one more delta of the same size would exceed the span.
C8_Witness ==
    /\ ret.op = "get_shake_intensity"
    /\ 0 < ret.val.num /\ ret.val.num < 3072 * ret.val.len
    /\ Len(delta_buffer) = 3
    /\ 5 * (SumSeq(delta_buffer) + 2100) - 3072 * 4 > 3072 * 4

\* C9: a second poll that finds the raw accelerometer vector of the poll
\* before it returns the value that poll returned and leaves the previous
\* vector, the delta buffer, the quiet counter and the cached intensity as
\* they were.
C9_DuplicatePoll ==
    [][(count'.poll = count.poll + 1
          /\ ret.op = "get_shake_intensity"
          /\ ret.data = <<raw_imu_data.ax, raw_imu_data.ay, raw_imu_data.az>>)
       => (ret'.val = ret.val /\ UNCHANGED shakeVars)]_vars

\* Two polls in a row of the same valid reading, the cached intensity
\* above 0.
C9_Witness ==
    /\ ret.op = "get_shake_intensity"
    /\ count.poll >= 3
    /\ prev_accel = ret.data
    /\ ret.val.num > 0 /\ ret.val = last_intensity
    /\ Len(delta_buffer) = 2

(***************************************************************************)
(* SpecMono: get_shake_intensity as a function of the estimator state and  *)
(* the reading, applied to two signals A and B sample by sample.  A runs   *)
(* on the session's estimator, B on the twin; at every sample B's delta    *)
(* from its previous sample is at least A's.  The two signals are followed *)
(* up to and including the first sample at which a gate other than a       *)
(* noise gate common to both fires.                                        *)
(***************************************************************************)
MonoAccel == {<<0, 0, 2048>>, <<0, 0, 2148>>, <<0, 0, 3548>>, <<0, 0, 5648>>}

Reading(v) == [IMUData EXCEPT !.ax = v[1], !.ay = v[2], !.az = v[3]]

MonoPoll ==
    /\ count.poll < MaxMonoPolls
    /\ twin.ok
    /\ \E a \in MonoAccel, b \in MonoAccel :
          LET first == count.poll = 0
              dA == IF first THEN 0 ELSE Dist(a, ret.data)
              dB == IF first THEN 0 ELSE Dist(b, twin.last)
              rA == ShakeStep(Estimator, Reading(a))
              rB == ShakeStep(twin.est, Reading(b))
              \* no gate but the noise gate fires, and it fires in both or
              \* in neither
              ungated == \/ first
                         \/ /\ dA > 0 /\ dB <= 3072
                            /\ (20 * dA < 6144) <=> (20 * dB < 6144)
          IN /\ dB >= dA
             /\ prev_accel' = rA.est.prev_accel
             /\ delta_buffer' = rA.est.delta_buffer
             /\ quiet_count' = rA.est.quiet_count
             /\ last_intensity' = rA.est.last_intensity
             /\ ret' = [op |-> "get_shake_intensity", val |-> rA.val, data |-> a]
             /\ twin' = [est |-> rB.est, last |-> b, val |-> rB.val,
                         ok |-> twin.ok /\ ungated]
    /\ count' = [count EXCEPT !.poll = @ + 1]
    /\ UNCHANGED <<is_connected, ingestVars, calibration_offset, tiltVars,
                   cal, exc, rx, seen_tilt, ema_reset, quiet_run, lockVars,
                   linkVars, scorerVars>>

NextMono == MonoPoll

SpecMono == Init /\ [][NextMono]_vars

\* C10 as claimed: if every delta of B is at least the corresponding delta
\* of A, the intensity produced for B is at least that produced for A.
C10_Monotone ==
    count.poll > 0 => IntensityLeq(ret.val, twin.val)

\* C10 as amended: the same, for signals in which every delta is above 0
\* and at most 1.5 g (neither the duplicate nor the outlier gate fires) and
\* B's delta is under the 0.15 g noise threshold exactly where A's is.
C10_MonotoneUngated ==
    (count.poll > 0 /\ twin.ok) => IntensityLeq(ret.val, twin.val)

\* Two ungated signals whose windows were cleared together by five quiet
\* samples, then A's intensity above 0 and B's strictly above A's.
C10_Witness ==
    /\ twin.ok /\ count.poll = 8
    /\ Len(delta_buffer) = 3 /\ Len(twin.est.delta_buffer) = 3
    /\ ret.val.num > 0
    /\ ~IntensityLeq(twin.val, ret.val)

(***************************************************************************)
(* SpecGates: the estimator polled once per packet, and once more at some  *)
(* moment of the run, while the reading moves along one axis: to a value   *)
(* below the validity threshold, by less than the noise threshold          *)
(* (2048 <-> 2148), by a normal amount (to 3548) and by more than the      *)
(* outlier threshold (to 5648).                                            *)
(***************************************************************************)
GateAccel == {<<0, 0, 500>>, <<0, 0, 2048>>, <<0, 0, 2148>>, <<0, 0, 3548>>,
              <<0, 0, 5648>>}

\* A packet arrives once the reading before it has been polled.
GateNotify ==
    /\ is_connected
    /\ count.notify < MaxGateNotify
    /\ count.notify <= count.poll
    /\ \E v \in GateAccel : Notify("1601", AccelPacket(v, 1))

GatePoll == count.poll <= count.notify /\ GetShakeIntensity

GateConnect == SetConnected(TRUE)

NextGates == GateConnect \/ GateNotify \/ GatePoll

SpecGates == Init /\ [][NextGates]_vars

\* get_shake_intensity has returned.
Polled == count'.poll = count.poll + 1

\* The reading the poll takes.
Current == <<raw_imu_data.ax, raw_imu_data.ay, raw_imu_data.az>>

\* C24: when the raw accelerometer magnitude is below 1000 LSB,
\* get_shake_intensity returns 0 and leaves the previous vector, the delta
\* buffer, the quiet counter and the cached intensity unchanged.
C24_SmallReading ==
    [][(Polled /\ SumSq(raw_imu_data.ax, raw_imu_data.ay, raw_imu_data.az)
                    < 1000 * 1000) =>
         /\ ret'.val = Zero
         /\ UNCHANGED shakeVars]_vars

\* A reading below the threshold was polled with a window of three
\* deltas, a quiet sample counted and a non-zero intensity cached.
C24_Witness ==
    /\ ret.op = "get_shake_intensity" /\ ret.data = <<0, 0, 500>>
    /\ ret.val = Zero
    /\ Len(delta_buffer) = 3 /\ last_intensity.num > 0 /\ quiet_count = 1

QuietAccel == {<<0, 0, 2048>>, <<0, 0, 2148>>, <<0, 0, 3548>>, <<0, 0, 5648>>}

QuietNotify ==
    /\ is_connected
    /\ count.notify < MaxQuietNotify
    /\ count.notify <= count.poll
    /\ \E v \in QuietAccel : Notify("1601", AccelPacket(v, 1))

QuietPoll == count.poll < count.notify /\ GetShakeIntensity

QuietConnect == SetConnected(TRUE)

NextQuiet == QuietConnect \/ QuietNotify \/ QuietPoll

SpecQuiet == Init /\ [][NextQuiet]_vars

\* C26 as claimed: a processed new sample clears the averaging window
\* early exactly when it completes a run of 5 consecutive processed
\* samples each with a delta below the noise threshold, a sample rejected
\* by the outlier gate restarting the run like any other sample that is
\* not below the threshold; right after the clear the window holds the
\* current zero delta alone and the intensity returned is 0.
C26_ClearAfterQuietRun ==
    [][(Polled /\ Gate(Estimator, raw_imu_data) \in {"noise", "normal", "outlier"}) =>
         LET gate == Gate(Estimator, raw_imu_data)
             delta == IF gate = "noise" THEN 0 ELSE Dist(Current, prev_accel)
         IN IF gate = "noise" /\ quiet_run + 1 = QUIET_RUN
            THEN delta_buffer' = <<0>> /\ ret'.val = Zero
            ELSE IF gate = "outlier" THEN delta_buffer' = delta_buffer
            ELSE delta_buffer' = Push(delta_buffer, delta)]_vars

(***************************************************************************)
(* SpecRing: a long shake, polled once per packet: the reading swings      *)
(* between 2048 and 3548, resting midway (3048) now and then among the     *)
(* first samples, so that the window fills with deltas that differ and     *)
(* then overflows.                                                         *)
(***************************************************************************)
RingAccel == {<<0, 0, 2048>>, <<0, 0, 3548>>}

RingRest == <<0, 0, 3048>>

RingNotify ==
    /\ is_connected
    /\ count.notify < MaxRingNotify
    /\ count.notify <= count.poll
    /\ \E v \in RingAccel \cup {RingRest} :
          /\ v # Current
          /\ v = RingRest => count.notify < MaxRingDetours
          /\ Notify("1601", AccelPacket(v, 1))

RingPoll == count.poll < count.notify /\ GetShakeIntensity

RingConnect == SetConnected(TRUE)

NextRing == RingConnect \/ RingNotify \/ RingPoll

SpecRing == Init /\ [][NextRing]_vars

\* The poll appends a delta to the window without clearing it first.
Pushes ==
    /\ Polled
    /\ Gate(Estimator, raw_imu_data) \in {"first", "noise", "normal"}
    /\ ~(Gate(Estimator, raw_imu_data) = "noise" /\ quiet_count + 1 >= QUIET_RUN)

\* The delta the poll appends.
Pushed ==
    IF Gate(Estimator, raw_imu_data) = "normal" THEN Dist(Current, prev_accel)
    ELSE 0

====
